---- MODULE Spec2Model ----
(***************************************************************************)
(* Model of hotel_dashboard.py: the INSEE archive loader                   *)
(* (load_insee_data), the memoized batch loader (get_hotel_data),          *)
(* process_data and the control flow of main() that decides which regions  *)
(* are offered, charted and decomposed; and of ESAT/esat_app.py: the quiz  *)
(* application's navigation, timer and session log.                        *)
(*                                                                         *)
(* Text is modelled as sequences of one-character strings, so that the     *)
(* string operations of the loader (quote stripping, decimal-comma         *)
(* replacement, float and date parsing) are computed and not assumed.      *)
(* A number is a pair (m, s) standing for m / 10^s, kept in lowest form.   *)
(***************************************************************************)
EXTENDS Integers, Sequences, FiniteSets, TLC

VARIABLES
    cache,              \* st.cache_data store of get_hotel_data: the stored tuple, or empty
    fetches,            \* number of requests.get calls made so far, per region
    resp,               \* the HTTP response each region's last fetch received
    data,               \* marne_data, france_data, grand_est_hotels_data of the last run
    processed,          \* marne_processed, france_processed, grand_est_hotels_processed
    available_sources,  \* the options of the region multiselect
    selected_regions,   \* the user's selection in the multiselect
    shown,              \* regions whose chart was rendered in the last run
    decomp,             \* outcome of the seasonal decomposition block, per region
    exit,               \* how the last run of main() ended
    runs,               \* number of script runs so far
    monthly,            \* the box plots of the Monthly Patterns tab, per rate region
    csv_rows,           \* loader harness: data rows of the archive's csv entry
    zip_file,           \* loader harness: the zip archive the url serves
    region_name,        \* loader harness: the region label passed by the caller
    loaded,             \* loader harness: result of load_insee_data
    ts_frame,           \* analysis harness: the processed frame of a selected rate region
    block,              \* analysis harness: what the decomposition block made of it
    config,             \* quiz: the configuration load_questions_config returned
    session_state,      \* quiz: st.session_state
    selected_section,   \* quiz: the value of the section selectbox
    script_error,       \* quiz: the last run ended in an exception
    now,                \* quiz: the clock, time.time()
    watch,              \* quiz: how long each question has been on display
    ran,                \* quiz: how long the timer ran since its last reset
    log_file,           \* quiz: exam_sessions_log.json
    log_data            \* quiz: the log history_tab loaded in the last run

vars == <<cache, fetches, resp, data, processed, available_sources,
          selected_regions, shown, decomp, exit, runs, monthly,
          csv_rows, zip_file, region_name, loaded, ts_frame, block,
          config, session_state, selected_section, script_error, now, watch, ran,
          log_file, log_data>>

pipeVars == <<cache, fetches, resp, data, processed, available_sources,
              selected_regions, shown, decomp, exit, runs, monthly>>

loaderVars == <<csv_rows, zip_file, region_name, loaded>>

analysisVars == <<ts_frame, block>>

quizVars == <<config, session_state, selected_section, script_error, now, watch, ran,
              log_file, log_data>>

\* ---------------------------------------------------------------- bounds
MaxRows == 3        \* longest batch of data rows the loader harness enumerates
MaxTime == 4        \* last instant of the quiz clock
MaxEntriesLogged == 2   \* most entries of the session log
MaxRuns == 2        \* script runs explored per behaviour
LongLen == 25       \* months of the longest sample series (one more than the threshold)

\* ------------------------------------------------------- text and numbers
Digits == {"0", "1", "2", "3", "4", "5", "6", "7", "8", "9"}

DigitChar == <<"0", "1", "2", "3", "4", "5", "6", "7", "8", "9">>

DigitVal(c) == CHOOSE d \in 0..9 : DigitChar[d + 1] = c

RECURSIVE Pow10(_)
Pow10(k) == IF k = 0 THEN 1 ELSE 10 * Pow10(k - 1)

\* value of a sequence of digit characters, read as a base-10 numeral
RECURSIVE Numeral(_)
Numeral(s) ==
    IF s = <<>> THEN 0
    ELSE 10 * Numeral(SubSeq(s, 1, Len(s) - 1)) + DigitVal(s[Len(s)])

\* m / 10^s in lowest form, so that 10.0 and 10 are the same number
RECURSIVE Reduce(_, _)
Reduce(m, s) ==
    IF s > 0 /\ m % 10 = 0 THEN Reduce(m \div 10, s - 1)
    ELSE [nan |-> FALSE, m |-> m, s |-> s]

NaN == [nan |-> TRUE, m |-> 0, s |-> 0]

NaT == [nat |-> TRUE, year |-> 0, month |-> 0, day |-> 0]

Timestamp(y, mo) == [nat |-> FALSE, year |-> y, month |-> mo, day |-> 1]

\* a text cell of a DataFrame: a string, or the missing marker of an empty field
Str(s) == [nan |-> FALSE, s |-> s]

NaStr == [nan |-> TRUE, s |-> <<>>]

\* str.replace(old, new) for a one-character old and a new of any length
RECURSIVE str_replace(_, _, _)
str_replace(s, old, new) ==
    IF s = <<>> THEN <<>>
    ELSE (IF Head(s) = old THEN new ELSE <<Head(s)>>) \o str_replace(Tail(s), old, new)

\* astype(str): a missing cell becomes the text "nan"
astype_str(cell) == IF cell.nan THEN <<"n", "a", "n">> ELSE cell.s

\* float(text), over the characters the archives use (digits, point, letters):
\* an optional integer part, an optional point and fraction, at least one
\* digit; "nan" gives NaN; anything else is a ValueError (ok = FALSE)
float(s) ==
    LET dots == {i \in 1..Len(s) : s[i] = "."}
        p    == IF dots = {} THEN Len(s) + 1 ELSE CHOOSE i \in dots : TRUE
        int  == SubSeq(s, 1, p - 1)
        frac == SubSeq(s, p + 1, Len(s))
    IN  IF s = <<"n", "a", "n">> THEN [ok |-> TRUE, v |-> NaN]
        ELSE IF /\ Cardinality(dots) <= 1
                /\ \A i \in 1..Len(s) : i \in dots \/ s[i] \in Digits
                /\ Len(int) + Len(frac) >= 1
             THEN [ok |-> TRUE, v |-> Reduce(Numeral(int \o frac), Len(frac))]
             ELSE [ok |-> FALSE, v |-> NaN]

\* pd.to_datetime(text, format='%Y-%m', errors='coerce'): four digits, a
\* dash, a month 1..12 written with one or two digits; anything else is NaT
to_datetime(s) ==
    LET mo == SubSeq(s, 6, Len(s))
    IN  IF /\ Len(s) \in {6, 7}
           /\ \A i \in 1..4 : s[i] \in Digits
           /\ s[5] = "-"
           /\ \A i \in 6..Len(s) : s[i] \in Digits
           /\ Numeral(mo) \in 1..12
           /\ (Len(mo) = 1 => Numeral(mo) >= 1)
        THEN Timestamp(Numeral(SubSeq(s, 1, 4)), Numeral(mo))
        ELSE NaT

\* months since year 0: the order and the distance of two timestamps
MonthIndex(t) == t.year * 12 + (t.month - 1)

\* s contains sub as a contiguous run of characters (Python's "sub in s")
Contains(s, sub) ==
    \E i \in 0..(Len(s) - Len(sub)) : SubSeq(s, i + 1, i + Len(sub)) = sub

\* s.endswith(suffix)
EndsWith(s, suffix) ==
    /\ Len(s) >= Len(suffix)
    /\ SubSeq(s, Len(s) - Len(suffix) + 1, Len(s)) = suffix

UpperCase == <<"A", "B", "C", "D", "E", "F", "G", "H", "I", "J", "K", "L", "M",
               "N", "O", "P", "Q", "R", "S", "T", "U", "V", "W", "X", "Y", "Z">>

LowerCase == <<"a", "b", "c", "d", "e", "f", "g", "h", "i", "j", "k", "l", "m",
               "n", "o", "p", "q", "r", "s", "t", "u", "v", "w", "x", "y", "z">>

\* str.lower()
lower(s) ==
    [i \in 1..Len(s) |->
        IF \E k \in 1..26 : UpperCase[k] = s[i]
        THEN LowerCase[CHOOSE k \in 1..26 : UpperCase[k] = s[i]]
        ELSE s[i]]

\* ------------------------------------------------------------- the regions
Regions == {"Marne", "France", "Grand Est Hotels"}

\* the region labels get_hotel_data passes to the loader, as text
Label(r) ==
    CASE r = "Marne"  -> <<"M", "a", "r", "n", "e">>
      [] r = "France" -> <<"F", "r", "a", "n", "c", "e">>
      [] OTHER        -> <<"G", "r", "a", "n", "d", " ", "E", "s", "t", " ",
                           "H", "o", "t", "e", "l", "s">>

\* ------------------------------------------------------------- DataFrames
\* A frame is its column names and its rows, each row a sequence of cells in
\* column order.  None is the loader's "no result".
None == [kind |-> "None", columns |-> <<>>, rows |-> <<>>]

Frame(columns, rows) == [kind |-> "frame", columns |-> columns, rows |-> rows]

HasColumn(df, c) == \E i \in 1..Len(df.columns) : df.columns[i] = c

\* names of the columns past the third, and of the columns of a headerless frame
ColNames == <<"Col_3", "Col_4", "Col_5">>

IntNames == <<"0", "1", "2", "3", "4", "5">>

\* ---------------------------------------------------------------- read_csv
PreambleLines == 4      \* skiprows=4

\* one field of a line: empty is missing; a field wrapped in double quotes
\* is read without them
read_field(f) ==
    IF f = <<>> THEN NaStr
    ELSE IF Len(f) >= 2 /\ f[1] = "\"" /\ f[Len(f)] = "\""
         THEN (IF Len(f) = 2 THEN NaStr ELSE Str(SubSeq(f, 2, Len(f) - 1)))
         ELSE Str(f)

\* pd.read_csv(csv_file, sep=';', skiprows=4, header=None) of the lines of a
\* file, each line given as its fields: the preamble is skipped, blank lines
\* are skipped, the first remaining line fixes the number of columns, shorter
\* lines are padded with missing cells; no line at all (EmptyDataError) or a
\* line longer than the first (ParserError) is an exception (ok = FALSE)
read_csv(lines) ==
    LET body    == SubSeq(lines, PreambleLines + 1, Len(lines))
        NotBlank(l) == l # <<>> /\ l # << <<>> >>
        kept    == SelectSeq(body, NotBlank)
        ncols   == Len(kept[1])
        cells(l) == [j \in 1..ncols |->
                        IF j <= Len(l) THEN read_field(l[j]) ELSE NaStr]
    IN  IF kept = <<>> \/ \E i \in 1..Len(kept) : Len(kept[i]) > ncols
        THEN [ok |-> FALSE, df |-> None]
        ELSE [ok |-> TRUE,
              df |-> Frame([j \in 1..ncols |-> IntNames[j]],
                           [i \in 1..Len(kept) |-> cells(kept[i])])]

\* ------------------------------------------- load_insee_data: the cleaning
\* the name the second column gets: region-name sniffing for "Hotels"
value_col(label) ==
    IF Contains(label, <<"H", "o", "t", "e", "l", "s">>)
    THEN "Hotel_Count" ELSE "Occupancy_Rate"

\* astype(str).str.replace('"', '').str.replace(',', '.') then float
clean_value(cell) ==
    float(str_replace(str_replace(astype_str(cell), "\"", <<>>), ",", <<".">>))

\* astype(str).str.replace('"', '') then to_datetime(..., errors='coerce')
clean_date(cell) == to_datetime(str_replace(astype_str(cell), "\"", <<>>))

\* astype(str).str.replace('"', '')
clean_status(cell) == Str(str_replace(astype_str(cell), "\"", <<>>))

\* df.dropna(subset=['Date', value_col]) on rows whose first two cells are
\* the date and the value
dropna(rows) ==
    LET Keep(r) == ~r[1].nat /\ ~r[2].nan
    IN  SelectSeq(rows, Keep)

\* the orders in which the rows of a set of row numbers can be listed
RECURSIVE Orders(_, _)
Orders(rows, idx) ==
    IF idx = {} THEN {<<>>}
    ELSE UNION {{<<rows[i]>> \o rest : rest \in Orders(rows, idx \ {i})} : i \in idx}

RECURSIVE SortFrom(_, _)
SortFrom(rows, idx) ==
    IF idx = {} THEN {<<>>}
    ELSE LET k == CHOOSE k \in {MonthIndex(rows[i][1]) : i \in idx} :
                      \A j \in idx : k <= MonthIndex(rows[j][1])
             g == {i \in idx : MonthIndex(rows[i][1]) = k}
         IN  UNION {{first \o rest : rest \in SortFrom(rows, idx \ g)} :
                        first \in Orders(rows, g)}

\* a sort that leaves the rows in input order
sort_values_unsorted(rows) == {rows}

\* df.sort_values('Date'): ascending by date.  The default sort kind is not
\* stable, so rows of equal date may come out in any relative order: the
\* result is the set of orders the sort can produce
sort_values(rows) == SortFrom(rows, 1..Len(rows))

\* lines 51-79 of load_insee_data on the frame read from the csv entry: the
\* set of frames it can return, or the exception of a value that float()
\* rejects (ok = FALSE)
clean_frame(df, label) ==
    LET n       == Len(df.columns)
        vcol    == value_col(label)
        names   == [j \in 1..n |->
                       IF j = 1 THEN "Date" ELSE IF j = 2 THEN vcol
                       ELSE IF j = 3 THEN "Status" ELSE ColNames[j - 3]]
        cleaned == [i \in 1..Len(df.rows) |->
                       [j \in 1..n |->
                           IF j = 1 THEN clean_date(df.rows[i][1])
                           ELSE IF j = 2 THEN clean_value(df.rows[i][2]).v
                           ELSE IF j = 3 THEN clean_status(df.rows[i][3])
                           ELSE df.rows[i][j]]]
        tagged(rows) == [i \in 1..Len(rows) |-> Append(rows[i], Str(label))]
    IN  IF n >= 3
        THEN IF \E i \in 1..Len(df.rows) : ~clean_value(df.rows[i][2]).ok
             THEN {[ok |-> FALSE, df |-> None]}
             ELSE {[ok |-> TRUE, df |-> Frame(Append(names, "Region"), tagged(rows))] :
                       rows \in sort_values(dropna(cleaned))}
        ELSE {[ok |-> TRUE, df |-> Frame(Append(df.columns, "Region"), tagged(df.rows))]}

\* --------------------------------------------------------- load_insee_data
\* An HTTP exchange: error is a transport failure (no response at all),
\* otherwise status and content are the response's.  The content is a zip
\* archive (zip = TRUE) with named entries, or bytes that are no archive.
Response(error, status, content) ==
    [error |-> error, status |-> status, content |-> content]

Archive(entries) == [zip |-> TRUE, entries |-> entries]

NotAnArchive == [zip |-> FALSE, entries |-> <<>>]

Entry(name, lines) == [name |-> name, lines |-> lines]

\* response.raise_for_status() raises for 4xx and 5xx
raise_for_status(status) == status >= 400 /\ status < 600

DotCsv == <<".", "c", "s", "v">>

\* a listing that takes every entry of the archive for a csv file
csv_files_any(archive) == [i \in 1..Len(archive.entries) |-> archive.entries[i].name]

\* [f for f in zip_file.namelist() if f.endswith('.csv')]
csv_files(archive) ==
    LET names == [i \in 1..Len(archive.entries) |-> archive.entries[i].name]
        IsCsv(f) == EndsWith(f, DotCsv)
    IN  SelectSeq(names, IsCsv)

\* a selection that takes the first csv name whatever the names are
data_file_first(csvs) == csvs[1]

\* the entry read as the data file: the first csv name containing 'valeurs'
\* or 'donnees' in any letter case, else the first csv name
data_file(csvs) ==
    LET Marked(f) == \/ Contains(lower(f), <<"v", "a", "l", "e", "u", "r", "s">>)
                     \/ Contains(lower(f), <<"d", "o", "n", "n", "e", "e", "s">>)
        marked == SelectSeq(csvs, Marked)
    IN  IF marked = <<>> THEN csvs[1] ELSE marked[1]

\* zip_file.open(name): the archive's entry of that name (the last one, when
\* a name occurs twice)
zip_open(archive, name) ==
    LET idx == {i \in 1..Len(archive.entries) : archive.entries[i].name = name}
    IN  archive.entries[CHOOSE i \in idx : \A j \in idx : j <= i]

\* The bytes of an entry are written one token per byte: an ASCII byte as its
\* character, the bytes C3, A9 and E9 as "xC3", "xA9" and "xE9".  Decoded
\* text writes the characters beyond ASCII as "U+00C3", "U+00A9", "U+00E9".
HighBytes == {"xC3", "xA9", "xE9"}

\* bytes.decode('utf-8') of one field: C3 followed by a continuation byte is
\* one character (C3 A9 is U+00E9), E9 followed by two continuation bytes is
\* one character (E9 A9 A9 is U+9A69); a continuation byte alone or a lead
\* byte without its continuation bytes is a UnicodeDecodeError
RECURSIVE decode_utf8(_)
decode_utf8(b) ==
    IF b = <<>> THEN [ok |-> TRUE, s |-> <<>>]
    ELSE IF b[1] \notin HighBytes
         THEN LET rest == decode_utf8(Tail(b))
              IN  [ok |-> rest.ok, s |-> <<b[1]>> \o rest.s]
    ELSE IF b[1] = "xC3" /\ Len(b) >= 2 /\ b[2] = "xA9"
         THEN LET rest == decode_utf8(SubSeq(b, 3, Len(b)))
              IN  [ok |-> rest.ok, s |-> <<"U+00E9">> \o rest.s]
    ELSE IF b[1] = "xE9" /\ Len(b) >= 3 /\ b[2] = "xA9" /\ b[3] = "xA9"
         THEN LET rest == decode_utf8(SubSeq(b, 4, Len(b)))
              IN  [ok |-> rest.ok, s |-> <<"U+9A69">> \o rest.s]
    ELSE [ok |-> FALSE, s |-> <<>>]

\* bytes.decode('latin-1') of one field: every byte is one character
decode_latin1(b) ==
    [i \in 1..Len(b) |->
        IF b[i] = "xC3" THEN "U+00C3"
        ELSE IF b[i] = "xA9" THEN "U+00A9"
        ELSE IF b[i] = "xE9" THEN "U+00E9"
        ELSE b[i]]

\* an entry read with the legacy encoding whatever its bytes are
read_entry_latin1_first(entry) ==
    read_csv([i \in 1..Len(entry.lines) |->
                 [j \in 1..Len(entry.lines[i]) |-> decode_latin1(entry.lines[i][j])]])

\* lines 43-49: read_csv of the entry decoded as utf-8; on a
\* UnicodeDecodeError anywhere in the file the entry is rewound and the whole
\* of it is read again as latin-1
read_entry(entry) ==
    LET utf8(i, j) == decode_utf8(entry.lines[i][j])
        valid == \A i \in 1..Len(entry.lines) :
                     \A j \in 1..Len(entry.lines[i]) : utf8(i, j).ok
    IN  IF valid
        THEN read_csv([i \in 1..Len(entry.lines) |->
                          [j \in 1..Len(entry.lines[i]) |-> utf8(i, j).s]])
        ELSE read_csv([i \in 1..Len(entry.lines) |->
                          [j \in 1..Len(entry.lines[i]) |-> decode_latin1(entry.lines[i][j])]])

\* what a call returns and reports: the frame or None, the st.error message
\* it shows ("" when none), and the number of requests.get calls it made
Loaded(df, message) == [df |-> df, message |-> message, gets |-> 1]

MsgNoCsv == "No CSV files found"

MsgError == "Error loading data"

\* load_insee_data(url, region_name) when the url answers with response r:
\* the set of results the call can have.  Every exception inside the try
\* block ends in the handler of lines 81-83.
load_insee_data(r, label) ==
    IF r.error \/ raise_for_status(r.status) \/ ~r.content.zip
    THEN {Loaded(None, MsgError)}
    ELSE LET csvs == csv_files(r.content)
         IN  IF csvs = <<>>
             THEN {Loaded(None, MsgNoCsv)}
             ELSE LET table == read_entry(zip_open(r.content, data_file(csvs)))
                  IN  IF ~table.ok
                      THEN {Loaded(None, MsgError)}
                      ELSE {IF c.ok THEN Loaded(c.df, "") ELSE Loaded(None, MsgError) :
                                c \in clean_frame(table.df, label)}

\* ------------------------------------------------------------ sample input
\* four metadata lines precede the data in every INSEE export
Preamble ==
    << <<<<"L", "i", "b">>, <<"T", "a", "u", "x">>>>,
       <<<<"I", "d">>, <<"0", "1", "0">>>>,
       <<<<"M", "a", "j">>, <<"2", "0", "2", "4">>>>,
       <<<<"P", "e", "r">>, <<"V">>, <<"C">>>> >>

StatusA == <<"A">>

\* month number i (months since year 0) written YYYY-MM
FmtDate(i) ==
    LET y == i \div 12
        m == (i % 12) + 1
    IN  <<DigitChar[((y \div 1000) % 10) + 1], DigitChar[((y \div 100) % 10) + 1],
          DigitChar[((y \div 10) % 10) + 1], DigitChar[(y % 10) + 1], "-",
          DigitChar[(m \div 10) + 1], DigitChar[(m % 10) + 1]>>

\* a two-digit number of tenths written with a decimal comma, as 4,7
FmtValue(t) == <<DigitChar[((t \div 10) % 10) + 1], ",", DigitChar[(t % 10) + 1]>>

Jan2020 == 2020 * 12

\* the fields the loader harness combines into rows
SampleDates ==
    {FmtDate(Jan2020), FmtDate(Jan2020 + 1), FmtDate(Jan2020 + 2),
     <<"2", "0", "2", "0", "-", "1", "3">>}

SampleValues ==
    {<<"1", "0", ",", "0">>, <<"2", "0", ",", "0">>,
     <<"\"", "3", ",", "5", "\"">>, <<"x", "x">>}

SampleRows == {<<d, v, StatusA>> : d \in SampleDates, v \in SampleValues}

RECURSIVE SeqsUpTo(_, _)
SeqsUpTo(S, n) ==
    IF n = 0 THEN {<<>>}
    ELSE LET shorter == SeqsUpTo(S, n - 1)
         IN  shorter \cup {Append(q, x) : q \in {t \in shorter : Len(t) = n - 1}, x \in S}

DataFileName ==
    <<"v", "a", "l", "e", "u", "r", "s", "_", "m", "e", "n", "s", "u", "e", "l", "l", "e", "s",
      ".", "c", "s", "v">>

ReadmeName == <<"l", "i", "s", "e", "z", "m", "o", "i", ".", "t", "x", "t">>

\* a 200 response carrying an archive whose data file holds the given rows
OkResponse(rows) ==
    Response(FALSE, 200, Archive(<<Entry(DataFileName, Preamble \o rows)>>))

\* exports arrive newest month first (ordre=antechronologique)
ShortRows ==
    << <<FmtDate(Jan2020 + 1), FmtValue(47), StatusA>>,
       <<FmtDate(Jan2020), FmtValue(45), StatusA>> >>

SparseRows ==
    << <<FmtDate(Jan2020 + 26), FmtValue(52), StatusA>>,
       <<FmtDate(Jan2020), FmtValue(45), StatusA>> >>

LongRows ==
    [i \in 1..LongLen |->
        <<FmtDate(Jan2020 + LongLen - i), FmtValue(40 + ((LongLen - i) % 12)), StatusA>>]

BadValueRows ==
    << <<FmtDate(Jan2020 + 1), <<"x", "x">>, StatusA>>,
       <<FmtDate(Jan2020), FmtValue(45), StatusA>> >>

NoDateRows == << <<<<"(", "s", ")">>, FmtValue(45), StatusA>> >>

NetworkError == Response(TRUE, 0, NotAnArchive)

Http404 == Response(FALSE, 404, NotAnArchive)

NoCsvResponse ==
    Response(FALSE, 200, Archive(<<Entry(ReadmeName, Preamble \o ShortRows)>>))

EmptyArchiveResponse == Response(FALSE, 200, Archive(<<>>))

\* what the server may answer to the request of one series
Responses ==
    {NetworkError, Http404, NoCsvResponse, EmptyArchiveResponse, OkResponse(NoDateRows),
     OkResponse(BadValueRows), OkResponse(ShortRows), OkResponse(SparseRows),
     OkResponse(LongRows)}

\* ---------------------------------------------------------- get_hotel_data
Tuple(m, f, g) ==
    [r \in Regions |-> IF r = "Marne" THEN m ELSE IF r = "France" THEN f ELSE g]

NotCalled == [df |-> None, message |-> "", gets |-> 0]

\* a batch loader that gives up on the remaining series after a failed one
get_hotel_data_abort(rs) ==
    {Tuple(m,
           IF m.df.kind = "None" THEN NotCalled ELSE f,
           IF m.df.kind = "None" \/ f.df.kind = "None" THEN NotCalled ELSE g) :
        m \in load_insee_data(rs["Marne"], Label("Marne")),
        f \in load_insee_data(rs["France"], Label("France")),
        g \in load_insee_data(rs["Grand Est Hotels"], Label("Grand Est Hotels"))}

\* the body of get_hotel_data when the three urls answer with rs: the three
\* loads are made one after the other, whatever each returns
get_hotel_data(rs) ==
    {Tuple(m, f, g) :
        m \in load_insee_data(rs["Marne"], Label("Marne")),
        f \in load_insee_data(rs["France"], Label("France")),
        g \in load_insee_data(rs["Grand Est Hotels"], Label("Grand Est Hotels"))}

\* the store of @st.cache_data for the argument-less get_hotel_data
EmptyCache == [stored |-> FALSE, value |-> [r \in Regions |-> NotCalled]]

\* a store that never answers
cache_hit_never(c) == FALSE

\* @st.cache_data: the body runs only when no result is stored
cache_hit(c) == c.stored

\* -------------------------------------------------------------- process_data
\* a process_data that lets an empty frame through
process_data_keep_empty(df) == df

process_data(df) ==
    IF df.kind = "None" \/ df.rows = <<>> THEN None ELSE df

\* ---------------------------------------------------------------------- main
HistoryThreshold == 24

\* length of the monthly grid asfreq('MS') builds over a date-sorted frame
GridLen(df) ==
    MonthIndex(df.rows[Len(df.rows)][1]) - MonthIndex(df.rows[1][1]) + 1

HasRateColumns(df) == HasColumn(df, "Date") /\ HasColumn(df, "Occupancy_Rate")

\* ------------------------------------------- alignment and decomposition
\* The values of a time series are exact fractions n / d in lowest terms, or
\* the missing value (NaN of a float Series).
RECURSIVE GCD(_, _)
GCD(a, b) == IF b = 0 THEN a ELSE GCD(b, a % b)

Abs(x) == IF x < 0 THEN -x ELSE x

Missing == [nan |-> TRUE, n |-> 0, d |-> 1]

Ratio(n, d) ==
    LET g == GCD(Abs(n), d)
    IN  [nan |-> FALSE, n |-> n \div g, d |-> d \div g]

\* float arithmetic: a missing operand gives a missing result
Plus(x, y) ==
    IF x.nan \/ y.nan THEN Missing ELSE Ratio((x.n * y.d) + (y.n * x.d), x.d * y.d)

Minus(x, y) ==
    IF x.nan \/ y.nan THEN Missing ELSE Ratio((x.n * y.d) - (y.n * x.d), x.d * y.d)

Times(x, k) == IF x.nan THEN Missing ELSE Ratio(x.n * k, x.d)

Over(x, k) == IF x.nan THEN Missing ELSE Ratio(x.n, x.d * k)

RECURSIVE Sum(_)
Sum(xs) == IF xs = <<>> THEN Ratio(0, 1) ELSE Plus(xs[1], Sum(Tail(xs)))

\* mean of the values that are not missing; missing when there is none
nanmean(xs) ==
    LET Known(x) == ~x.nan
        known == SelectSeq(xs, Known)
    IN  IF known = <<>> THEN Missing ELSE Over(Sum(known), Len(known))

\* set_index('Date')['Occupancy_Rate'].dropna(): the observations as pairs
\* of month and value, rows without a value left out
set_index(df) ==
    LET HasValue(row) == ~row[2].nan
        rows == SelectSeq(df.rows, HasValue)
    IN  [i \in 1..Len(rows) |->
            [t |-> MonthIndex(rows[i][1]),
             v |-> Ratio(rows[i][2].m, Pow10(rows[i][2].s))]]

\* asfreq('MS') of a date-sorted series: one point for every month from the
\* first to the last date, missing where the series has no observation;
\* reindexing raises when a date occurs twice (ok = FALSE)
asfreq(obs) ==
    LET first == obs[1].t
        last  == obs[Len(obs)].t
        At(t) == {i \in 1..Len(obs) : obs[i].t = t}
    IN  IF \E i, j \in 1..Len(obs) : i < j /\ obs[i].t = obs[j].t
        THEN [ok |-> FALSE, start |-> 0, v |-> <<>>]
        ELSE [ok |-> TRUE, start |-> first,
              v |-> [k \in 1..(last - first + 1) |->
                        IF At(first + k - 1) = {} THEN Missing
                        ELSE obs[CHOOSE i \in At(first + k - 1) : TRUE].v]]

\* a filling that repeats the last known value over a gap
interpolate_ffill(v) ==
    [i \in 1..Len(v) |->
        LET before == {j \in 1..i : ~v[j].nan}
        IN  IF before = {} THEN Missing
            ELSE v[CHOOSE j \in before : \A k \in before : k <= j]]

\* interpolate(method='linear'): the points are taken as equally spaced; a
\* missing point between two known ones lies on the line through them, one
\* after the last known point repeats it, one before the first stays missing
interpolate(v) ==
    [i \in 1..Len(v) |->
        IF ~v[i].nan THEN v[i]
        ELSE LET before == {j \in 1..i : ~v[j].nan}
                 after  == {j \in i..Len(v) : ~v[j].nan}
                 lo == CHOOSE j \in before : \A k \in before : k <= j
                 hi == CHOOSE j \in after : \A k \in after : j <= k
             IN  IF before = {} THEN Missing
                 ELSE IF after = {} THEN v[lo]
                 ELSE Plus(v[lo], Over(Times(Minus(v[hi], v[lo]), i - lo), hi - lo))]

\* a filling that puts the mean at every point
fillna_all(v) == [i \in 1..Len(v) |-> nanmean(v)]

\* ts.fillna(ts.mean()): the points still missing get the mean of the others
fillna(v) == [i \in 1..Len(v) |-> IF v[i].nan THEN nanmean(v) ELSE v[i]]

\* lines 356-363 (441-448): the monthly series the decomposition is given,
\* or the exception of a frame without the rate column or with a repeated
\* date
align(df) ==
    IF ~HasRateColumns(df) THEN [ok |-> FALSE, start |-> 0, v |-> <<>>]
    ELSE LET grid == asfreq(set_index(df))
         IN  IF ~grid.ok THEN grid
             ELSE [ok |-> TRUE, start |-> grid.start,
                   v |-> fillna(interpolate(grid.v))]

Period == 12

\* a moving average over Period - 1 points
convolution_filter_short(x) ==
    LET n == Len(x)
        h == (Period \div 2) - 1
    IN  [i \in 1..n |->
            IF i <= h \/ i > n - h THEN Missing
            ELSE Over(Sum(SubSeq(x, i - h, i + h)), Period - 1)]

\* the trend of seasonal_decompose for an even period: the centred moving
\* average with weights 1/2, 1, ..., 1, 1/2 over Period + 1 points, divided
\* by Period; missing where the window does not fit
convolution_filter(x) ==
    LET n == Len(x)
        h == Period \div 2
    IN  [i \in 1..n |->
            IF i <= h \/ i > n - h THEN Missing
            ELSE Over(Plus(Plus(Over(x[i - h], 2), Sum(SubSeq(x, i - h + 1, i + h - 1))),
                           Over(x[i + h], 2)),
                      Period)]

\* seasonal_mean: for each of the Period positions, the mean of the values
\* at that position that are not missing
seasonal_mean(d) ==
    [p \in 1..Period |->
        LET AtPosition(i) == (i - 1) % Period = p - 1
            at == SelectSeq([i \in 1..Len(d) |-> i], AtPosition)
        IN  nanmean([k \in 1..Len(at) |-> d[at[k]]])]

\* position means that are not centred
period_averages_raw(d) == seasonal_mean(d)

\* period_averages -= mean(period_averages)
period_averages(d) ==
    LET raw == seasonal_mean(d)
        centre == Over(Sum(raw), Period)
    IN  [p \in 1..Period |-> Minus(raw[p], centre)]

\* a residual that keeps the seasonal part
resid_detrended(detrended, seasonal) == detrended

\* resid = detrended - seasonal
resid(detrended, seasonal) ==
    [i \in 1..Len(detrended) |-> Minus(detrended[i], seasonal[i])]

\* seasonal_decompose(ts, model='additive', period=12)
seasonal_decompose(x) ==
    LET trend     == convolution_filter(x)
        detrended == [i \in 1..Len(x) |-> Minus(x[i], trend[i])]
        pattern   == period_averages(detrended)
        seasonal  == [i \in 1..Len(x) |-> pattern[((i - 1) % Period) + 1]]
    IN  [observed |-> x, trend |-> trend, seasonal |-> seasonal,
         resid |-> resid(detrended, seasonal)]

NoSeries == [ok |-> FALSE, start |-> 0, v |-> <<>>]

NoComponents == [observed |-> <<>>, trend |-> <<>>, seasonal |-> <<>>, resid |-> <<>>]

NotRun == [outcome |-> "not_run", ts |-> NoSeries, parts |-> NoComponents]

NotEntered == [outcome |-> "none", ts |-> NoSeries, parts |-> NoComponents]

\* lines 352-366 (437-451) for a selected region whose processed frame is
\* df: the block's outcome, the aligned series and the components.  The
\* outcome is "none" when the block is not entered, "error" when its try
\* block raises (a missing column, or asfreq on duplicate dates),
\* "decomposed" when seasonal_decompose is called, "skipped" when the inner
\* length test fails
decomposition_block(df) ==
    IF Len(df.rows) > HistoryThreshold
    THEN LET a == align(df)
         IN  IF ~a.ok THEN [outcome |-> "error", ts |-> NoSeries, parts |-> NoComponents]
             ELSE IF Len(a.v) > HistoryThreshold
                  THEN [outcome |-> "decomposed", ts |-> a, parts |-> seasonal_decompose(a.v)]
                  ELSE [outcome |-> "skipped", ts |-> a, parts |-> NoComponents]
    ELSE NotEntered

\* the decomposition block of region r in a run: entered for a selected
\* region whose processed frame is not None
decomposition(r, sel, p) ==
    IF r \in sel /\ p.kind # "None" THEN decomposition_block(p).outcome ELSE "none"

NoDecomp == [r \in Regions |-> "none"]

AllNone == [r \in Regions |-> None]

\* the multiselect options built in lines 141-145
available(p) ==
    (IF p["Marne"].kind # "None" THEN <<"Marne">> ELSE <<>>)
        \o (IF p["France"].kind # "None" THEN <<"France">> ELSE <<>>)

Range(q) == {q[i] : i \in 1..Len(q)}

\* ------------------------------------------------------- Monthly Patterns
\* a frame handle that is the frame it was made from
copy_alias(df) == [alias |-> TRUE, df |-> df]

\* DataFrame.copy(): a new frame of the same content; what is assigned to
\* the copy does not reach the frame it was made from
copy(df) == [alias |-> FALSE, df |-> df]

\* analysis['Month'] = analysis['Date'].dt.month and the same for the year
\* (lines 531-532, 555-556)
with_month_year(df) ==
    Frame(df.columns \o <<"Month", "Year">>,
          [i \in 1..Len(df.rows) |->
              df.rows[i] \o <<df.rows[i][1].month, df.rows[i][1].year>>])

\* lines 530-532 (554-556): the analysis frame, and the processed frame as
\* it is after the two assignments
analysis_frame(p) ==
    LET h == copy(p)
    IN  [analysis  |-> with_month_year(h.df),
         processed |-> IF h.alias THEN with_month_year(h.df) ELSE p]

RECURSIVE Ascending(_)
Ascending(S) ==
    IF S = {} THEN <<>>
    ELSE LET least == CHOOSE x \in S : \A y \in S : x <= y
         IN  <<least>> \o Ascending(S \ {least})

\* groupby(['Month', 'Year'])['Occupancy_Rate'].mean(), read month by month
\* as the box plot reads it: for each month the means of its years, in
\* ascending order of the year
monthly_means(analysis) ==
    LET n == Len(analysis.columns)
        InGroup(mo, y) == {i \in 1..Len(analysis.rows) :
                              analysis.rows[i][n - 1] = mo /\ analysis.rows[i][n] = y}
        Years(mo) == {analysis.rows[i][n] : i \in {j \in 1..Len(analysis.rows) :
                                                      analysis.rows[j][n - 1] = mo}}
        Mean(mo, y) ==
            LET idx == Ascending(InGroup(mo, y))
            IN  nanmean([k \in 1..Len(idx) |->
                            Ratio(analysis.rows[idx[k]][2].m, Pow10(analysis.rows[idx[k]][2].s))])
    IN  [mo \in 1..12 |->
            LET ys == Ascending(Years(mo))
            IN  [k \in 1..Len(ys) |-> Mean(mo, ys[k])]]

NoBoxes == [drawn |-> FALSE, boxes |-> [mo \in 1..12 |-> <<>>]]

Boxes(b) == [drawn |-> TRUE, boxes |-> b]

NoMonthly == [r \in {"Marne", "France"} |-> NoBoxes]

\* lines 519-636 with the processed frames m and f of the selected regions
\* (inM, inF): the box plots that are drawn, the processed frames after the
\* step, and whether the step raised.  The month names are assigned in the
\* Marne branch only (line 538); the France-only branch reads them in line
\* 615 for the first month that has data.
monthly_patterns(inM, m, inF, f) ==
    LET am == analysis_frame(m)
        af == analysis_frame(f)
        mAfter == IF inM /\ HasColumn(m, "Date") THEN am.processed ELSE m
        fAfter == IF inF /\ HasColumn(f, "Date") THEN af.processed ELSE f
    IN  IF inM /\ ~HasRateColumns(m)
        THEN [crashed |-> TRUE, marne |-> mAfter, france |-> f, drawn |-> NoMonthly]
        ELSE IF inF /\ ~HasRateColumns(f)
        THEN [crashed |-> TRUE, marne |-> mAfter, france |-> fAfter, drawn |-> NoMonthly]
        ELSE IF inF /\ ~inM
        THEN [crashed |-> TRUE, marne |-> mAfter, france |-> fAfter, drawn |-> NoMonthly]
        ELSE [crashed |-> FALSE, marne |-> mAfter, france |-> fAfter,
              drawn |-> [r \in {"Marne", "France"} |->
                            IF r = "Marne" /\ inM THEN Boxes(monthly_means(am.analysis))
                            ELSE IF r = "France" /\ inF THEN Boxes(monthly_means(af.analysis))
                            ELSE NoBoxes]]

\* one run of main() on the tuple t returned by get_hotel_data, with the
\* user's selection sel: every variable the run assigns
main_body(t, sel) ==
    LET d     == [r \in Regions |-> t[r].df]
        p     == [r \in Regions |-> process_data(d[r])]
        m     == p["Marne"]
        f     == p["France"]
        g     == p["Grand Est Hotels"]
        inM   == "Marne" \in sel /\ m.kind # "None"
        inF   == "France" \in sel /\ f.kind # "None"
        \* lines 183-186 and 219-222 index the other region's Occupancy_Rate
        \* before the chart is drawn
        chartCrash == inM /\ inF /\ (HasRateColumns(m) # HasRateColumns(f))
        charts == (IF inM /\ HasRateColumns(m) THEN {"Marne"} ELSE {})
                    \cup (IF inF /\ HasRateColumns(f) THEN {"France"} ELSE {})
        hotels == IF g.kind # "None" /\ HasColumn(g, "Date") /\ HasColumn(g, "Hotel_Count")
                  THEN {"Grand Est Hotels"} ELSE {}
        dec   == [r \in Regions |->
                    IF r = "Grand Est Hotels" THEN "none" ELSE decomposition(r, sel, p[r])]
        mp    == monthly_patterns(inM, m, inF, f)
        after == [r \in Regions |->
                     IF r = "Marne" THEN mp.marne ELSE IF r = "France" THEN mp.france ELSE g]
    IN  IF \A r \in Regions : d[r].kind = "None"
        THEN [data |-> d, processed |-> AllNone, available_sources |-> <<>>,
              shown |-> {}, decomp |-> NoDecomp, monthly |-> NoMonthly,
              exit |-> "all_failed"]
        ELSE IF available(p) = <<>>
        THEN [data |-> d, processed |-> p, available_sources |-> <<>>,
              shown |-> {}, decomp |-> NoDecomp, monthly |-> NoMonthly,
              exit |-> "no_data"]
        ELSE IF chartCrash
        THEN [data |-> d, processed |-> p, available_sources |-> available(p),
              shown |-> {}, decomp |-> NoDecomp, monthly |-> NoMonthly,
              exit |-> "crashed"]
        ELSE [data |-> d, processed |-> after, available_sources |-> available(p),
              shown |-> charts \cup hotels, decomp |-> dec, monthly |-> mp.drawn,
              exit |-> IF mp.crashed THEN "crashed" ELSE "completed"]

\* ------------------------------------------------------------ the dashboard
\* One script run: get_hotel_data through the cache, then main's body with
\* the selection the user makes among the offered regions.
RunWith(t, hit, rs) ==
    \E sel \in SUBSET Range(available([r \in Regions |-> process_data(t[r].df)])) :
        LET out == main_body(t, sel)
        IN  /\ cache' = [stored |-> TRUE, value |-> t]
            /\ fetches' = [r \in Regions |-> fetches[r] + (IF hit THEN 0 ELSE t[r].gets)]
            /\ resp' = rs
            /\ data' = out.data
            /\ processed' = out.processed
            /\ available_sources' = out.available_sources
            /\ selected_regions' = sel
            /\ shown' = out.shown
            /\ decomp' = out.decomp
            /\ exit' = out.exit
            /\ runs' = runs + 1
            /\ monthly' = out.monthly
            /\ UNCHANGED loaderVars
            /\ UNCHANGED analysisVars
            /\ UNCHANGED quizVars

main ==
    /\ runs < MaxRuns
    /\ IF cache_hit(cache)
       THEN RunWith(cache.value, TRUE, resp)
       ELSE \E rs \in [Regions -> Responses] :
                \E t \in get_hotel_data(rs) : RunWith(t, FALSE, rs)

\* ===================================================== the quiz application
\* src/ESAT/esat_app.py: a Streamlit script whose state between runs is
\* st.session_state, the values of its widgets and the session log file.
\* An action is one user event: the script run it triggers and the runs
\* that st.rerun() starts after it, up to the run that ends by itself.
\* Every time.time() of an event reads the same instant.
NoTime == 0 - 1         \* None, as the value of a time field

NoExam == "None"        \* None, as the value of selected_exam

FirstInstant == 1       \* the instant of the first run; time.time() is never 0

\* a dict as a function on the set of its keys
EmptyDict == [k \in {} |-> 0]

dict_get(d, k, default) == IF k \in DOMAIN d THEN d[k] ELSE default

dict_set(d, k, v) == [x \in (DOMAIN d) \cup {k} |-> IF x = k THEN v ELSE d[x]]

\* f"{exam_id}_{q_num}": the pair of the exam and the question number (the
\* number has no underscore, so two pairs never give the same text)
Key(exam_id, q_num) == <<exam_id, q_num>>

SectionOf(name, questions, answers) ==
    [name |-> name, questions |-> questions, answers |-> answers]

ExamOf(id, sections) == [id |-> id, sections |-> sections]

\* a configuration shaped as the default one: the sections of an exam have
\* the same number of questions, numbered on from section to section, and
\* exams differ in their number of questions
DefaultConfig ==
    <<ExamOf("ENGAA_2023",
             <<SectionOf("Part A", <<1, 2>>, <<"A", "B">>),
               SectionOf("Part B", <<3, 4>>, <<"B", "A">>)>>),
      ExamOf("TMUA_2023",
             <<SectionOf("Paper 1", <<1, 2, 3>>, <<"A", "A", "A">>)>>)>>

\* a questions_config.json in which the two parts of an exam differ in length
EditedConfig ==
    <<ExamOf("ENGAA_2023",
             <<SectionOf("Part A", <<1, 2, 3>>, <<"A", "B", "A">>),
               SectionOf("Part B", <<4, 5>>, <<"B", "A">>)>>),
      ExamOf("TMUA_2023",
             <<SectionOf("Paper 1", <<1, 2, 3>>, <<"A", "A", "A">>)>>)>>

Configs == {DefaultConfig, EditedConfig}

Options == {"A", "B"}   \* the radio options the harness selects among

exam_config(cfg, exam_key) == cfg[CHOOSE i \in 1..Len(cfg) : cfg[i].id = exam_key]

exam_keys(cfg) == [i \in 1..Len(cfg) |-> cfg[i].id]

sections(cfg, exam_key) ==
    LET e == exam_config(cfg, exam_key)
    IN  [i \in 1..Len(e.sections) |-> e.sections[i].name]

section_config(cfg, exam_key, section) ==
    LET e == exam_config(cfg, exam_key)
    IN  e.sections[CHOOSE i \in 1..Len(e.sections) : e.sections[i].name = section]

questions_of(cfg, exam_key, section) == section_config(cfg, exam_key, section).questions

answers_of(cfg, exam_key, section) == section_config(cfg, exam_key, section).answers

\* lines 18-31
InitialSessionState ==
    [current_question |-> 0, user_answers |-> EmptyDict, selected_exam |-> NoExam,
     start_time |-> NoTime, total_time |-> 0, question_start_time |-> NoTime,
     question_times |-> EmptyDict]

\* the truth value of a time field: None and 0 are false
Truthy(t) == t # NoTime /\ t # 0

\* ---- the session log
NoLogFile == [exists |-> FALSE, entries |-> <<>>]

LogFile(entries) == [exists |-> TRUE, entries |-> entries]

\* load_session_log(): the entries of the file, [] when there is no file
load_session_log(file) == IF file.exists THEN file.entries ELSE <<>>

\* a result that takes the empty answer for a wrong one
is_correct_no_none(user_answer, correct_answer) ==
    IF user_answer = correct_answer THEN "True" ELSE "False"

\* user_answer == correct_answer if user_answer else None
is_correct(user_answer, correct_answer) ==
    IF user_answer = "" THEN "None"
    ELSE IF user_answer = correct_answer THEN "True" ELSE "False"

\* the entry save_session_log builds (lines 146-162) at instant t
session_entry(exam_id, questions, answers, user_answers, question_times, t) ==
    [time |-> t, exam_id |-> exam_id,
     results |-> [i \in 1..Len(questions) |->
                    LET user_answer == dict_get(user_answers, Key(exam_id, questions[i]), "")
                    IN  [question       |-> questions[i],
                         user_answer    |-> user_answer,
                         correct_answer |-> answers[i],
                         is_correct     |-> is_correct(user_answer, answers[i]),
                         time_spent     |-> dict_get(question_times,
                                                     Key(exam_id, questions[i]), 0)]]]

\* save_session_log: the file after the call
save_session_log(file, exam_id, questions, answers, user_answers, question_times, t) ==
    LogFile(Append(load_session_log(file),
                   session_entry(exam_id, questions, answers, user_answers,
                                 question_times, t)))

\* ---- one script run
Questions == questions_of(config, session_state.selected_exam, selected_section)

\* the question on display: questions[question_idx] of the selected section
Displayed == Questions[session_state.current_question + 1]

DisplayedKey == Key(session_state.selected_exam, Displayed)

\* the script reached its end in the last run: an exam is selected and the
\* slider did not raise
Showing == session_state.selected_exam # NoExam /\ ~script_error

\* st.slider("Question", 0, len(questions)-1, current_question) raises when
\* the value is above the maximum
slider_raises(cfg, exam_key, section, current_question) ==
    current_question > Len(questions_of(cfg, exam_key, section)) - 1

\* question_times after the time since question_start_time is added under
\* the key of question q_num (lines 272-276, 355-358, 367-370, 397-402)
add_time(ss, q_num, t) ==
    IF Truthy(ss.question_start_time)
    THEN dict_set(ss.question_times, Key(ss.selected_exam, q_num),
                  dict_get(ss.question_times, Key(ss.selected_exam, q_num), 0)
                      + (t - ss.question_start_time))
    ELSE ss.question_times

\* the common part of the slider, Previous, Next and Quick Jump handlers:
\* the time is added for question from_q, then the index and the start of
\* the interval are set
go_to(ss, from_q, idx, t) ==
    [ss EXCEPT !.question_times = add_time(ss, from_q, t),
               !.current_question = idx,
               !.question_start_time = t]

\* what a run leaves alone besides the session state
QuizFrame == UNCHANGED <<config, now>> /\ UNCHANGED pipeVars /\ UNCHANGED loaderVars
                 /\ UNCHANGED analysisVars

\* the run that ends an event goes through history_tab, which loads the log
EndOfRun == log_data' = IF script_error' THEN log_data ELSE load_session_log(log_file')

\* time passes: the clock advances; the question on display has been
\* displayed, and a started timer has been running, for one unit more
Tick ==
    /\ now < MaxTime
    /\ now' = now + 1
    /\ watch' = IF Showing
                THEN dict_set(watch, DisplayedKey, dict_get(watch, DisplayedKey, 0) + 1)
                ELSE watch
    /\ ran' = IF session_state.start_time # NoTime THEN ran + 1 ELSE ran
    /\ UNCHANGED <<config, session_state, selected_section, script_error, log_file, log_data>>
    /\ UNCHANGED pipeVars /\ UNCHANGED loaderVars /\ UNCHANGED analysisVars

\* lines 250-257 for the exam the selectbox returns, and the rerun: the
\* section selectbox keeps its value when its options are the same
ChooseExam(e) ==
    /\ session_state' = [session_state EXCEPT !.selected_exam = e,
                                              !.current_question = 0,
                                              !.start_time = now,
                                              !.total_time = 0,
                                              !.question_start_time = now,
                                              !.question_times = EmptyDict]
    /\ selected_section' =
           IF session_state.selected_exam # NoExam
                  /\ sections(config, session_state.selected_exam) = sections(config, e)
           THEN selected_section
           ELSE sections(config, e)[1]
    /\ script_error' = slider_raises(config, e, selected_section', 0)
    /\ watch' = EmptyDict
    /\ ran' = 0
    /\ UNCHANGED log_file
    /\ EndOfRun
    /\ QuizFrame

\* the first run of a session: the exam selectbox shows its first option
Open ==
    /\ session_state.selected_exam = NoExam
    /\ ChooseExam(exam_keys(config)[1])

SelectExam ==
    /\ session_state.selected_exam # NoExam
    /\ \E i \in 1..Len(config) :
           /\ config[i].id # session_state.selected_exam
           /\ ChooseExam(config[i].id)

\* another section is selected: lines 259-266; nothing of the session state
\* is assigned, and the slider is built with the current index
SelectSection ==
    /\ session_state.selected_exam # NoExam
    /\ \E s \in Range(sections(config, session_state.selected_exam)) :
           /\ s # selected_section
           /\ selected_section' = s
           /\ script_error' = slider_raises(config, session_state.selected_exam, s,
                                            session_state.current_question)
    /\ UNCHANGED <<session_state, watch, ran, log_file>>
    /\ EndOfRun
    /\ QuizFrame

\* what the handlers of the widgets below the slider leave alone
Stay == UNCHANGED <<selected_section, script_error, watch, ran, log_file>>

\* the slider is moved to another index: lines 269-279
MoveSlider ==
    /\ Showing
    /\ \E idx \in 0..(Len(Questions) - 1) :
           /\ idx # session_state.current_question
           /\ session_state' = go_to(session_state, Displayed, idx, now)
    /\ Stay /\ EndOfRun /\ QuizFrame

\* lines 352-361
Previous ==
    /\ Showing
    /\ session_state.current_question # 0
    /\ session_state' =
           go_to(session_state, Displayed,
                 IF session_state.current_question - 1 > 0
                 THEN session_state.current_question - 1 ELSE 0,
                 now)
    /\ Stay /\ EndOfRun /\ QuizFrame

\* lines 363-373
NextQuestion ==
    /\ Showing
    /\ session_state.current_question # Len(Questions) - 1
    /\ session_state' =
           go_to(session_state, Displayed,
                 IF session_state.current_question + 1 < Len(Questions) - 1
                 THEN session_state.current_question + 1 ELSE Len(Questions) - 1,
                 now)
    /\ Stay /\ EndOfRun /\ QuizFrame

\* lines 393-406: the button of the i-th question of the grid
QuickJump ==
    /\ Showing
    /\ \E i \in 0..(Len(Questions) - 1) :
           session_state' = go_to(session_state, Displayed, i, now)
    /\ Stay /\ EndOfRun /\ QuizFrame

\* lines 303-306
StartTimer ==
    /\ Showing
    /\ session_state.start_time = NoTime
    /\ session_state' = [session_state EXCEPT !.start_time = now]
    /\ Stay /\ EndOfRun /\ QuizFrame

\* a pause that forgets the running interval
pause_forgetful(ss, t) == [ss EXCEPT !.start_time = NoTime]

\* lines 319-322: current_time is the instant of the run
pause(ss, t) ==
    [ss EXCEPT !.total_time = ss.total_time + (t - ss.start_time),
               !.start_time = NoTime]

PauseTimer ==
    /\ Showing
    /\ session_state.start_time # NoTime
    /\ session_state' = pause(session_state, now)
    /\ Stay /\ EndOfRun /\ QuizFrame

\* lines 314-317
ResetTimer ==
    /\ Showing
    /\ session_state.start_time # NoTime
    /\ session_state' = [session_state EXCEPT !.start_time = now, !.total_time = 0]
    /\ UNCHANGED <<selected_section, script_error, watch, log_file>>
    /\ ran' = 0
    /\ EndOfRun /\ QuizFrame

\* the radio of the question on display is set: lines 344-346
Answer ==
    /\ Showing
    /\ \E a \in Options :
           session_state' =
               [session_state EXCEPT !.user_answers = dict_set(@, DisplayedKey, a)]
    /\ Stay /\ EndOfRun /\ QuizFrame

\* lines 446-449
SaveSession ==
    /\ Showing
    /\ Len(load_session_log(log_file)) < MaxEntriesLogged
    /\ log_file' = save_session_log(log_file, session_state.selected_exam, Questions,
                                    answers_of(config, session_state.selected_exam,
                                               selected_section),
                                    session_state.user_answers,
                                    session_state.question_times, now)
    /\ UNCHANGED <<session_state, selected_section, script_error, watch, ran>>
    /\ EndOfRun /\ QuizFrame

\* the quiz application is not in use
QuizIdle ==
    /\ config = DefaultConfig
    /\ session_state = InitialSessionState
    /\ selected_section = ""
    /\ script_error = FALSE
    /\ now = FirstInstant
    /\ watch = EmptyDict
    /\ ran = 0
    /\ log_file = NoLogFile
    /\ log_data = <<>>

\* nothing has run yet
PipeIdle ==
    /\ cache = EmptyCache
    /\ fetches = [r \in Regions |-> 0]
    /\ resp = [r \in Regions |-> NetworkError]
    /\ data = AllNone
    /\ processed = AllNone
    /\ available_sources = <<>>
    /\ selected_regions = {}
    /\ shown = {}
    /\ decomp = NoDecomp
    /\ exit = "not_run"
    /\ runs = 0
    /\ monthly = NoMonthly

\* the loader harness is not in use
LoaderIdle ==
    /\ csv_rows = <<>>
    /\ zip_file = Archive(<<>>)
    /\ region_name = Label("Marne")
    /\ loaded = NotCalled

\* the analysis harness is not in use
AnalysisIdle ==
    /\ ts_frame = None
    /\ block = NotRun

Init == PipeIdle /\ LoaderIdle /\ AnalysisIdle /\ QuizIdle

Next == main

\* a session of navigation events with either configuration
QuizInit ==
    /\ PipeIdle /\ LoaderIdle /\ AnalysisIdle
    /\ config \in Configs
    /\ session_state = InitialSessionState
    /\ selected_section = ""
    /\ script_error = FALSE
    /\ now = FirstInstant
    /\ watch = EmptyDict
    /\ ran = 0
    /\ log_file = NoLogFile
    /\ log_data = <<>>

QuizNext ==
    \/ Tick \/ Open \/ SelectExam \/ SelectSection
    \/ MoveSlider \/ Previous \/ NextQuestion \/ QuickJump

QuizSpec == QuizInit /\ [][QuizNext]_vars

\* a session of timer events, exam selections and moves to the next question
TimerNext ==
    \/ Tick \/ Open \/ SelectExam \/ NextQuestion
    \/ StartTimer \/ PauseTimer \/ ResetTimer

TimerSpec == QuizInit /\ [][TimerNext]_vars

\* an entry an earlier session left in the log
EarlierEntry ==
    session_entry("TMUA_2023", <<1, 2, 3>>, <<"A", "A", "A">>,
                  dict_set(EmptyDict, Key("TMUA_2023", 2), "B"), EmptyDict, 0)

\* a session of answers and saves, with no log, an empty log or a log of
\* one entry
LogInit ==
    /\ PipeIdle /\ LoaderIdle /\ AnalysisIdle
    /\ config = DefaultConfig
    /\ session_state = InitialSessionState
    /\ selected_section = ""
    /\ script_error = FALSE
    /\ now = FirstInstant
    /\ watch = EmptyDict
    /\ ran = 0
    /\ log_file \in {NoLogFile, LogFile(<<>>), LogFile(<<EarlierEntry>>)}
    /\ log_data = <<>>

LogNext ==
    \/ Open \/ NextQuestion \/ Answer \/ SaveSession \/ Tick

LogSpec == LogInit /\ [][LogNext]_vars

Spec == Init /\ [][Next]_vars

\* --------------------------------------------------------- the loader alone
\* load_insee_data applied to one archive whose data rows are drawn from the
\* sample rows, for a rate region and for the count region.
LoaderInit ==
    /\ PipeIdle
    /\ csv_rows \in SeqsUpTo(SampleRows, MaxRows)
    /\ zip_file = OkResponse(csv_rows).content
    /\ region_name \in {Label("Marne"), Label("Grand Est Hotels")}
    /\ loaded = NotCalled
    /\ AnalysisIdle
    /\ QuizIdle

Load ==
    /\ loaded.gets = 0
    /\ loaded' \in load_insee_data(Response(FALSE, 200, zip_file), region_name)
    /\ UNCHANGED <<csv_rows, zip_file, region_name>>
    /\ UNCHANGED pipeVars
    /\ UNCHANGED analysisVars
    /\ UNCHANGED quizVars

LoaderNext == Load

LoaderSpec == LoaderInit /\ [][LoaderNext]_vars

\* ===================================================================== claims
\* What the input format says about a field, stated on the field's text and
\* not through the loader's operators.
Unquoted(f) ==
    IF Len(f) >= 2 /\ f[1] = "\"" /\ f[Len(f)] = "\"" THEN SubSeq(f, 2, Len(f) - 1) ELSE f

\* digits, a comma, digits
IsDecimalComma(f) ==
    LET u == Unquoted(f)
    IN  \E c \in 2..(Len(u) - 1) :
            /\ u[c] = ","
            /\ \A i \in 1..Len(u) : i # c => u[i] \in Digits

\* the number a decimal-comma field denotes, in tenths when it has one
\* fractional digit
CommaPosition(u) == CHOOSE c \in 1..Len(u) : u[c] = ","

DecimalCommaTenths(f) ==
    LET u == Unquoted(f)
        c == CommaPosition(u)
    IN  10 * Numeral(SubSeq(u, 1, c - 1)) + DigitVal(u[c + 1])

\* the value of a cell, in tenths
Tenths(v) == v.m * Pow10(1 - v.s)

\* YYYY-MM with a month 01..12
IsYearMonth(f) ==
    LET u == Unquoted(f)
    IN  /\ Len(u) = 7
        /\ u[5] = "-"
        /\ \A i \in {1, 2, 3, 4, 6, 7} : u[i] \in Digits
        /\ 10 * DigitVal(u[6]) + DigitVal(u[7]) \in 1..12

YearOf(f) == Numeral(SubSeq(Unquoted(f), 1, 4))

MonthOf(f) == Numeral(SubSeq(Unquoted(f), 6, 7))

\* a value no number can be read from: it has a letter in it
IsUnparseableValue(f) == \E i \in 1..Len(f) : f[i] \notin (Digits \cup {",", ".", "\""})

ValidRow(row) == IsYearMonth(row[1]) /\ IsDecimalComma(row[2])

ValidRowCount == Cardinality({i \in 1..Len(csv_rows) : ValidRow(csv_rows[i])})

LoadReturned == loaded.gets = 1

SeriesReturned == LoadReturned /\ loaded.df.kind = "frame"

\* the Observations of the returned Series that carry the month and the
\* value of input row i
ObservationsOf(i) ==
    {k \in 1..Len(loaded.df.rows) :
        /\ loaded.df.rows[k][1] = Timestamp(YearOf(csv_rows[i][1]), MonthOf(csv_rows[i][1]))
        /\ ~loaded.df.rows[k][2].nan
        /\ Tenths(loaded.df.rows[k][2]) = DecimalCommaTenths(csv_rows[i][2])}

\* the valid input rows that carry the same month and value as row i
SameObservation(i) ==
    {k \in 1..Len(csv_rows) :
        /\ ValidRow(csv_rows[k])
        /\ YearOf(csv_rows[k][1]) = YearOf(csv_rows[i][1])
        /\ MonthOf(csv_rows[k][1]) = MonthOf(csv_rows[i][1])
        /\ DecimalCommaTenths(csv_rows[k][2]) = DecimalCommaTenths(csv_rows[i][2])}

\* C1: a batch with a row whose value cannot be parsed is loaded without
\* raising, and the Series has one Observation for every other row with a
\* parseable date and value (the stated claim; the loader returns None).
ClaimC1 ==
    (LoadReturned /\ \E i \in 1..Len(csv_rows) : IsUnparseableValue(csv_rows[i][2]))
        => (loaded.df.kind = "frame" /\ Len(loaded.df.rows) = ValidRowCount)

\* C3: the returned Series has no two Observations with the same timestamp
\* (the stated claim; the loader keeps every row of a repeated month).
ClaimC3 ==
    SeriesReturned =>
        \A i, j \in 1..Len(loaded.df.rows) :
            i # j => loaded.df.rows[i][1] # loaded.df.rows[j][1]

\* C7: every input row with a parseable YYYY-MM date and a decimal-comma
\* value has exactly one Observation of its own in the result, with the
\* comma read as a decimal point and the first day of the month as timestamp
\* (the stated claim; it fails when another row's value raises, see C1).
ClaimC7 ==
    LoadReturned =>
        \A i \in 1..Len(csv_rows) :
            ValidRow(csv_rows[i]) =>
                Cardinality(ObservationsOf(i)) = Cardinality(SameObservation(i))

\* C8: in an input with a row whose date cannot be parsed, that row gives no
\* Observation, nothing is raised and every valid row is kept (the stated
\* claim; it fails when another row's value raises, see C1).
ClaimC8 ==
    (LoadReturned /\ \E i \in 1..Len(csv_rows) : ~IsYearMonth(csv_rows[i][1]))
        => /\ loaded.df.kind = "frame"
           /\ loaded.message = ""
           /\ Len(loaded.df.rows) = ValidRowCount
           /\ \A i \in 1..Len(csv_rows) :
                  ValidRow(csv_rows[i]) => ObservationsOf(i) # {}

\* C9: the returned Series is in ascending order of timestamp, whatever the
\* order of the input rows.
InvC9 ==
    SeriesReturned =>
        \A i, j \in 1..Len(loaded.df.rows) :
            i < j => MonthIndex(loaded.df.rows[i][1]) <= MonthIndex(loaded.df.rows[j][1])

\* a Series of two or more Observations was returned for an input whose
\* valid rows were in descending order of month
WitC9 ==
    /\ SeriesReturned
    /\ Len(loaded.df.rows) >= 2
    /\ \A i, j \in 1..Len(csv_rows) :
           i < j => /\ ValidRow(csv_rows[i]) /\ ValidRow(csv_rows[j])
                    /\ MonthOf(csv_rows[i][1]) > MonthOf(csv_rows[j][1])

\* ------------------------------------------------- claims about the batch
HasRun == runs >= 1

\* a network error or a status outside 2xx
FetchFails(r) == r.error \/ r.status < 200 \/ r.status > 299

\* an archive was received and none of its entries is a .csv file
NoCsvEntry(r) ==
    /\ ~FetchFails(r)
    /\ r.content.zip
    /\ \A i \in 1..Len(r.content.entries) :
           LET n == r.content.entries[i].name
           IN  Len(n) < 4 \/ <<n[Len(n) - 3], n[Len(n) - 2], n[Len(n) - 1], n[Len(n)]>> # DotCsv

\* the responses whose archive holds a series of at least one Observation,
\* and the number of Observations it holds
GoodResponses == {OkResponse(ShortRows), OkResponse(SparseRows), OkResponse(LongRows)}

ObservationCount(r) == IF r = OkResponse(LongRows) THEN LongLen ELSE 2

\* region q got the series its own archive holds, and process_data kept it
LoadedItsOwn(q) ==
    /\ data[q].kind = "frame"
    /\ Len(data[q].rows) = ObservationCount(resp[q])
    /\ processed[q] = data[q]

\* region r reached the caller: offered in the region selector, or charted
Delivered(r) ==
    \/ \E i \in 1..Len(available_sources) : available_sources[i] = r
    \/ r \in shown

\* C2: every region whose series loaded with at least one Observation is
\* processed and delivered, whatever happened to the other regions (the
\* stated claim; main returns before the Grand Est chart when neither Marne
\* nor France is available).
ClaimC2 ==
    HasRun =>
        \A r \in Regions :
            (data[r].kind = "frame" /\ data[r].rows # <<>>)
                => (processed[r] = data[r] /\ Delivered(r))

\* C4: in a run that goes through, for a selected, available region the
\* decomposition is made exactly when the monthly grid from its first to its last month has more than 24
\* points (the stated claim; the outer test counts the raw Observations).
ClaimC4 ==
    (HasRun /\ exit = "completed") =>
        \A r \in {"Marne", "France"} :
            (r \in selected_regions /\ processed[r].kind = "frame")
                => (decomp[r] = "decomposed" <=> GridLen(processed[r]) > HistoryThreshold)

\* C5: a failed fetch is made once, gives None with the loader's error
\* message instead of raising, and the other series are still fetched, each
\* once, and loaded and processed from their own archives.
InvC5 ==
    HasRun =>
        \A r \in Regions :
            FetchFails(resp[r]) =>
                /\ data[r].kind = "None"
                /\ cache.value[r].message = MsgError
                /\ cache.value[r].gets = 1
                /\ fetches[r] <= runs
                /\ \A q \in Regions \ {r} :
                       /\ cache.value[q].gets = 1
                       /\ fetches[q] >= 1
                       /\ resp[q] \in GoodResponses => LoadedItsOwn(q)

\* Marne's fetch failed and both other series were loaded in the same batch
WitC5 ==
    /\ HasRun
    /\ FetchFails(resp["Marne"])
    /\ data["Marne"].kind = "None"
    /\ LoadedItsOwn("France")
    /\ LoadedItsOwn("Grand Est Hotels")

\* C6: every run fetches every series again (the stated claim; the batch
\* loader is memoized).
ClaimC6 == \A r \in Regions : fetches[r] = runs

\* C6, amended: once a batch is stored, a run makes no fetch and its result
\* is the stored batch, which stays as it is.
ThmC6 ==
    [][cache.stored =>
          /\ fetches' = fetches
          /\ cache' = cache
          /\ data' = [r \in Regions |-> cache.value[r].df]]_vars

\* a second run came after a run in which a fetch had failed: the series was
\* requested once and is still unavailable
WitC6 ==
    /\ runs = 2
    /\ \E r \in Regions :
           FetchFails(resp[r]) /\ fetches[r] = 1 /\ data[r].kind = "None"

\* C10: an archive without any .csv entry gives None with the "No CSV files
\* found" message, and the other series of the batch are loaded from their
\* own archives.
InvC10 ==
    HasRun =>
        \A r \in Regions :
            NoCsvEntry(resp[r]) =>
                /\ data[r].kind = "None"
                /\ cache.value[r].message = MsgNoCsv
                /\ \A q \in Regions \ {r} :
                       resp[q] \in GoodResponses => LoadedItsOwn(q)

\* France's archive had no .csv entry and both other series were loaded
WitC10 ==
    /\ HasRun
    /\ NoCsvEntry(resp["France"])
    /\ cache.value["France"].message = MsgNoCsv
    /\ LoadedItsOwn("Marne")
    /\ LoadedItsOwn("Grand Est Hotels")

\* ------------------------------------------------- claims about empty series
\* the loader returned a Series of zero Observations for region r
EmptySeries(r) == data[r].kind = "frame" /\ data[r].rows = <<>>

MaxEntries == 3     \* most entries of a sample archive

DonneesName == <<"D", "o", "n", "n", "e", "e", "s", ".", "c", "s", "v">>

CaractName == <<"c", "a", "r", "a", "c", "t", ".", "c", "s", "v">>

MarkedTxtName == <<"v", "a", "l", "e", "u", "r", "s", ".", "t", "x", "t">>

EntryNames == {DataFileName, DonneesName, CaractName, ReadmeName, MarkedTxtName}

\* the i-th entry of a sample archive holds one row whose value is i
MarkedEntry(name, i) ==
    Entry(name, Preamble \o << <<FmtDate(Jan2020), FmtValue(10 * i), StatusA>> >>)

NamedArchives ==
    {Archive([i \in 1..Len(names) |-> MarkedEntry(names[i], i)]) :
        names \in SeqsUpTo(EntryNames, MaxEntries) \ {<<>>}}

\* a title line and a status field, in ASCII, in latin-1 and in utf-8, and
\* status fields that are truncated utf-8
HeaderBytes ==
    {<<"L", "i", "b">>, <<"L", "i", "b", "e", "l", "l", "xE9">>,
     <<"L", "i", "b", "e", "l", "l", "xC3", "xA9">>}

StatusBytes == {<<"A">>, <<"xE9">>, <<"xC3", "xA9">>, <<"xC3">>, <<"A", "xA9">>}

EncodedEntry(h, st) ==
    Entry(DataFileName,
          << <<h, <<"T", "a", "u", "x">>>> >> \o Tail(Preamble)
              \o << <<FmtDate(Jan2020), FmtValue(45), st>> >>)

EncodedArchives == {Archive(<<EncodedEntry(h, st)>>) : h \in HeaderBytes, st \in StatusBytes}

\* complete rows, a one-field footer, a row without its status field and a
\* blank line
FullRowA == <<FmtDate(Jan2020), FmtValue(45), StatusA>>

FullRowB == <<FmtDate(Jan2020 + 1), FmtValue(47), StatusA>>

FooterRow == << <<"f", "i", "n">> >>

TwoFieldRow == <<FmtDate(Jan2020 + 2), FmtValue(50)>>

BlankRow == <<>>

RaggedRows == {FullRowA, FullRowB, FooterRow, TwoFieldRow, BlankRow}

RaggedArchives ==
    {Archive(<<Entry(DataFileName, Preamble \o rows)>>) :
        rows \in SeqsUpTo(RaggedRows, MaxRows)}

ArchiveInit ==
    /\ PipeIdle
    /\ csv_rows = <<>>
    /\ zip_file \in NamedArchives \cup EncodedArchives \cup RaggedArchives
    /\ region_name \in {Label("Marne"), Label("Grand Est Hotels")}
    /\ loaded = NotCalled
    /\ AnalysisIdle
    /\ QuizIdle

ArchiveNext == Load

ArchiveSpec == ArchiveInit /\ [][ArchiveNext]_vars

\* ------------------------------------------- claims about reading an archive
EntryName(i) == zip_file.entries[i].name

\* the sample names that end in .csv, and those of them that carry a marker
CsvNames == {DataFileName, DonneesName, CaractName}

MarkedCsvNames == {DataFileName, DonneesName}

CsvEntries == {i \in 1..Len(zip_file.entries) : EntryName(i) \in CsvNames}

MarkedEntries == {i \in CsvEntries : EntryName(i) \in MarkedCsvNames}

First(S) == CHOOSE i \in S : \A j \in S : i <= j

\* the name the selection is stated to give
SelectedName ==
    IF MarkedEntries # {} THEN EntryName(First(MarkedEntries))
    ELSE EntryName(First(CsvEntries))

\* the loader returned the one row of entry i
ReadEntry(i) ==
    /\ SeriesReturned
    /\ Len(loaded.df.rows) = 1
    /\ Tenths(loaded.df.rows[1][2]) = 10 * i

HeaderOf(a) == a.entries[1].lines[1][1]

StatusOf(a) == a.entries[1].lines[PreambleLines + 1][3]

\* the sample byte strings that are well-formed utf-8
WellFormed == {<<"L", "i", "b">>, <<"L", "i", "b", "e", "l", "l", "xC3", "xA9">>,
               <<"A">>, <<"xC3", "xA9">>}

\* the text of a sample status in each encoding
Utf8Text(st) == IF st = <<"A">> THEN <<"A">> ELSE <<"U+00E9">>

Latin1Text(st) ==
    IF st = <<"A">> THEN <<"A">>
    ELSE IF st = <<"xE9">> THEN <<"U+00E9">>
    ELSE IF st = <<"xC3", "xA9">> THEN <<"U+00C3", "U+00A9">>
    ELSE IF st = <<"xC3">> THEN <<"U+00C3">>
    ELSE <<"A", "U+00A9">>

\* C19: an entry that is well-formed utf-8 is read as utf-8; an entry with a
\* byte sequence anywhere that is not utf-8 is read as latin-1 from its
\* first byte on; no sample entry fails to load, since every byte string
\* decodes as latin-1.
InvC19 ==
    (LoadReturned /\ zip_file \in EncodedArchives) =>
        /\ SeriesReturned
        /\ loaded.message = ""
        /\ Len(loaded.df.rows) = 1
        /\ loaded.df.rows[1][3] =
               Str(IF HeaderOf(zip_file) \in WellFormed /\ StatusOf(zip_file) \in WellFormed
                   THEN Utf8Text(StatusOf(zip_file))
                   ELSE Latin1Text(StatusOf(zip_file)))

\* a status that is well-formed utf-8 was read as latin-1 because the title
\* line, which is skipped, is not utf-8
WitC19 ==
    /\ LoadReturned
    /\ zip_file \in EncodedArchives
    /\ HeaderOf(zip_file) \notin WellFormed
    /\ StatusOf(zip_file) = <<"xC3", "xA9">>
    /\ SeriesReturned
    /\ loaded.df.rows[1][3] = Str(<<"U+00C3", "U+00A9">>)

\* the rows of a sample entry after its preamble
BodyOf(a) == SubSeq(a.entries[1].lines, PreambleLines + 1, Len(a.entries[1].lines))

FullRowCount(a) == Cardinality({i \in 1..Len(BodyOf(a)) : Len(BodyOf(a)[i]) >= 3})

\* C20: rows of fewer than 3 fields are dropped without error and every row
\* of 3 or more fields gives one record, wherever the short rows stand (the
\* stated claim; the first row read fixes the number of columns, so a longer
\* row after a short first row is a ParserError that loses the file, a file
\* of short rows only is returned uncleaned, and a row of two fields after a
\* full row is kept as an Observation).
ClaimC20 ==
    (LoadReturned /\ zip_file \in RaggedArchives /\ FullRowCount(zip_file) > 0) =>
        /\ SeriesReturned
        /\ Len(loaded.df.rows) = FullRowCount(zip_file)

\* ------------------------------------------------- the decomposition block
\* The block of lines 352-366 applied to the frames the loader returns for
\* exports of HistoryThreshold or more monthly rows: with a trend, a seasonal
\* shape and an outlier, with or without a run of months left out, and with
\* or without a month that occurs twice.
MaxExtra == 2       \* most rows of a sample export beyond HistoryThreshold
MaxGap == 2         \* most months left out in a row

SeasonShape == <<0, 2, 3, 5, 4, 1, 0, 1, 3, 5, 2, 1>>

OutlierAt == 9

\* tenths of the sample value of month t
SampleValueAt(t, a, b, c) ==
    30 + (a * t) + (b * SeasonShape[(t % 12) + 1]) + (IF t = OutlierAt THEN c ELSE 0)

\* n rows, newest month first, k months left out after the p-th month; with
\* dup, a second row for the month of the third row
SeriesRows(n, p, k, a, b, c, dup) ==
    LET month(i) == i + (IF i >= p THEN k ELSE 0)
        row(t, plus) == <<FmtDate(Jan2020 + t), FmtValue(SampleValueAt(t, a, b, c) + plus), StatusA>>
        rows == [i \in 1..n |-> row(month(n - i), 0)]
    IN  IF dup THEN Append(rows, row(month(n - 3), 1)) ELSE rows

GapStarts == {3, 14}

SampleExports ==
    {SeriesRows(n, p, k, a, b, c, dup) :
        n \in HistoryThreshold..(HistoryThreshold + MaxExtra),
        p \in GapStarts, k \in 0..MaxGap,
        a \in {0, 1}, b \in {0, 2}, c \in {0, 7}, dup \in BOOLEAN}

AnalysisInit ==
    /\ PipeIdle
    /\ LoaderIdle
    /\ \E rows \in SampleExports :
           \E l \in load_insee_data(OkResponse(rows), Label("Marne")) :
               ts_frame = process_data(l.df)
    /\ block = NotRun
    /\ QuizIdle

Decompose ==
    /\ block = NotRun
    /\ ts_frame.kind = "frame"
    /\ block' = decomposition_block(ts_frame)
    /\ UNCHANGED ts_frame
    /\ UNCHANGED pipeVars
    /\ UNCHANGED loaderVars
    /\ UNCHANGED quizVars

AnalysisNext == Decompose

AnalysisSpec == AnalysisInit /\ [][AnalysisNext]_vars

\* --------------------------------- claims about alignment and decomposition
\* the block has run on a frame that passes its length test
Entered == block.outcome \notin {"not_run", "none"}

Aligned == block.ts.ok

InputMonth(i) == MonthIndex(ts_frame.rows[i][1])

InputMonths == {InputMonth(i) : i \in 1..Len(ts_frame.rows)}

FirstMonth == InputMonth(1)

LastMonth == InputMonth(Len(ts_frame.rows))

MonthsSpanned == LastMonth - FirstMonth + 1

\* the value of the row of month t, in tenths
InputTenths(t) ==
    Tenths(ts_frame.rows[CHOOSE i \in 1..Len(ts_frame.rows) : InputMonth(i) = t][2])

\* the aligned value of month t
AlignedAt(t) == block.ts.v[t - FirstMonth + 1]

\* x is num / den
IsFraction(x, num, den) == ~x.nan /\ x.n * den = num * x.d

\* C12: the series that reaches the alignment gets a grid of one point per
\* month from its first to its last month, none of them missing (the stated
\* claim; a series in which a month occurs twice, which the loader returns
\* as it is, makes asfreq raise and gets no grid).
ClaimC12 ==
    Entered =>
        /\ Aligned
        /\ block.ts.start = FirstMonth
        /\ Len(block.ts.v) = MonthsSpanned
        /\ \A i \in 1..Len(block.ts.v) : ~block.ts.v[i].nan

\* C13: in an aligned series every month of the input keeps its value, and
\* the j-th of k months missing between the known values a and b has the
\* value a + j * (b - a) / (k + 1).
InvC13 ==
    (Entered /\ Aligned) =>
        \A t \in FirstMonth..LastMonth :
            IF t \in InputMonths
            THEN IsFraction(AlignedAt(t), InputTenths(t), 10)
            ELSE LET lo == CHOOSE u \in InputMonths :
                               u < t /\ \A w \in InputMonths : w < t => w <= u
                     hi == CHOOSE u \in InputMonths :
                               u > t /\ \A w \in InputMonths : w > t => u <= w
                     k  == hi - lo - 1
                     j  == t - lo
                 IN  IsFraction(AlignedAt(t),
                                (InputTenths(lo) * (k + 1)) + (j * (InputTenths(hi) - InputTenths(lo))),
                                10 * (k + 1))

\* two months in a row were missing between different values and were filled
WitC13 ==
    /\ Entered
    /\ Aligned
    /\ \E t \in FirstMonth..LastMonth :
           /\ {t, t + 1} \cap InputMonths = {}
           /\ {t - 1, t + 2} \subseteq InputMonths
           /\ InputTenths(t - 1) # InputTenths(t + 2)
           /\ ~AlignedAt(t).nan
           /\ AlignedAt(t) # AlignedAt(t + 1)

\* the input has a row for every month of its span, each month once
Contiguous ==
    /\ Len(ts_frame.rows) = MonthsSpanned
    /\ \A i \in 1..Len(ts_frame.rows) : InputMonth(i) = FirstMonth + i - 1

\* C14: the aligned series of a contiguous input has the input's length and
\* the input's value at every month, and interpolating and mean-filling an
\* aligned series again gives the same series.
InvC14 ==
    (Entered /\ Aligned) =>
        /\ Contiguous =>
               /\ Len(block.ts.v) = Len(ts_frame.rows)
               /\ block.ts.start = FirstMonth
               /\ \A i \in 1..Len(ts_frame.rows) :
                      IsFraction(block.ts.v[i], Tenths(ts_frame.rows[i][2]), 10)
        /\ fillna(interpolate(block.ts.v)) = block.ts.v

\* a contiguous input whose values differ was aligned
WitC14 ==
    /\ Entered
    /\ Aligned
    /\ Contiguous
    /\ block.ts.v[1] # block.ts.v[2]
    /\ Len(block.ts.v) = Len(ts_frame.rows)

Decomposed == block.outcome = "decomposed"

NObs == Len(block.parts.observed)

\* C15: in a decomposition the residual is missing exactly where the trend
\* is missing, and where the trend is defined the observed value is the sum
\* of trend, seasonal and residual; the observed series is the aligned one.
InvC15 ==
    Decomposed =>
        /\ block.parts.observed = block.ts.v
        /\ \A i \in 1..NObs :
               /\ block.parts.resid[i].nan <=> block.parts.trend[i].nan
               /\ ~block.parts.trend[i].nan =>
                      Plus(Plus(block.parts.trend[i], block.parts.seasonal[i]),
                           block.parts.resid[i]) = block.parts.observed[i]

\* a decomposition with a seasonal part and a residual that are not zero
WitC15 ==
    /\ Decomposed
    /\ \E i \in 1..NObs :
           /\ ~block.parts.trend[i].nan
           /\ block.parts.seasonal[i].n # 0
           /\ block.parts.resid[i].n # 0

\* C16: the trend is missing at exactly the first 6 and the last 5 points
\* (the stated claim; the moving average of an even period spans Period + 1
\* points, so Period / 2 points are missing at either end).
ClaimC16 ==
    Decomposed =>
        \A i \in 1..NObs :
            block.parts.trend[i].nan <=> (i <= 6 \/ i > NObs - 5)

\* C16, amended: the trend is missing at exactly the first 6 and the last 6
\* points of a decomposed series, which has more than 24 points.
ThmC16 ==
    Decomposed =>
        /\ NObs > HistoryThreshold
        /\ \A i \in 1..NObs :
               block.parts.trend[i].nan <=> (i <= 6 \/ i > NObs - 6)

\* a series of 25 points with the trend defined from the 7th to the 19th
WitC16 ==
    /\ Decomposed
    /\ NObs = HistoryThreshold + 1
    /\ block.parts.trend[6].nan
    /\ ~block.parts.trend[7].nan
    /\ ~block.parts.trend[NObs - 6].nan
    /\ block.parts.trend[NObs - 5].nan

\* C17: the seasonal values of the 12 positions sum to zero, none of them is
\* missing, and the seasonal component repeats them with period 12.
InvC17 ==
    Decomposed =>
        /\ \A i \in 1..NObs : ~block.parts.seasonal[i].nan
        /\ Sum(SubSeq(block.parts.seasonal, 1, Period)) = Ratio(0, 1)
        /\ \A i \in 1..(NObs - Period) :
               block.parts.seasonal[i] = block.parts.seasonal[i + Period]

\* a decomposition whose seasonal values are not all zero
WitC17 ==
    /\ Decomposed
    /\ NObs > 2 * Period
    /\ block.parts.seasonal[1].n # 0
    /\ block.parts.seasonal[1] = block.parts.seasonal[1 + (2 * Period)]

\* ------------------------------------- claims about the processed frames
\* C21: after a run every processed frame is the frame the loader returned
\* and the store holds: the charts, the shared axis range, the alignment,
\* the decomposition and the monthly analysis left its columns, its rows and
\* their order as they were.
InvC21 ==
    HasRun =>
        \A r \in Regions :
            /\ data[r] = cache.value[r].df
            /\ processed[r] = process_data(data[r])

\* a run that charted both regions on a shared axis, decomposed Marne and
\* drew Marne's monthly boxes from a frame with the two analysis columns
WitC21 ==
    /\ HasRun
    /\ {"Marne", "France"} \subseteq shown
    /\ decomp["Marne"] = "decomposed"
    /\ monthly["Marne"].drawn
    /\ monthly["France"].drawn
    /\ processed["Marne"] = cache.value["Marne"].df
    /\ ~HasColumn(processed["Marne"], "Month")

\* C22: when France is selected and its series is available, the Monthly
\* Patterns step draws France's boxes and the run does not raise, whatever
\* Marne's selection and availability (the stated claim; the month names
\* are assigned in Marne's branch only, so the France-only branch raises).
ClaimC22 ==
    (/\ HasRun
     /\ "France" \in selected_regions
     /\ processed["France"].kind = "frame"
     /\ HasRateColumns(processed["France"])
     /\ processed["Marne"].kind = "frame" => HasRateColumns(processed["Marne"]))
        => (exit = "completed" /\ monthly["France"].drawn)

\* ------------------------------------------- claims about the loader's result
\* C23: every frame the loader returns has the Date, value, Status and Region
\* columns, a valid month and a number in every row, and the caller's label
\* in every row, also when the data file has fewer than 3 columns (the
\* stated claim; a file of fewer than 3 columns skips the naming and the
\* cleaning of lines 52-75 and is returned with its numbered columns).
ClaimC23 ==
    SeriesReturned =>
        LET df == loaded.df
            n  == Len(df.columns)
        IN  /\ n >= 4
            /\ SubSeq(df.columns, 1, 3) = <<"Date", value_col(region_name), "Status">>
            /\ df.columns[n] = "Region"
            /\ \A i \in 1..Len(df.rows) :
                   /\ ~df.rows[i][1].nat
                   /\ ~df.rows[i][2].nan
                   /\ df.rows[i][n] = Str(region_name)

\* ------------------------------------------ claims about the quiz application
ExamSelected == session_state.selected_exam # NoExam

\* C24: once an exam is selected, current_question is an index of the
\* question list of the selected section (the stated claim; selecting a
\* section leaves the index as it is, so after a move to a shorter section
\* the index is past its end and the slider raises).
ClaimC24 ==
    ExamSelected =>
        /\ session_state.current_question >= 0
        /\ session_state.current_question < Len(Questions)

\* the keys of the questions of the selected exam
ExamKeys ==
    LET e == exam_config(config, session_state.selected_exam)
    IN  {Key(e.id, q) :
            q \in UNION {Range(e.sections[i].questions) : i \in 1..Len(e.sections)}}

\* C25: the time recorded for a question, with the interval still open for
\* the question on display, is the time the question has been on display
\* (the stated claim; selecting a section changes the question on display
\* without closing the interval, so the whole interval goes to the question
\* of the new section).
ClaimC25 ==
    Showing =>
        \A k \in ExamKeys :
            dict_get(session_state.question_times, k, 0)
                + (IF k = DisplayedKey THEN now - session_state.question_start_time ELSE 0)
              = dict_get(watch, k, 0)

\* C26: while the timer runs, the elapsed time shown (lines 309-310) is the
\* time it ran since the last Reset or exam change; while it is paused,
\* total_time holds that time.
InvC26 ==
    ExamSelected =>
        IF session_state.start_time # NoTime
        THEN (now - session_state.start_time) + session_state.total_time = ran
        ELSE session_state.total_time = ran

\* the timer ran, was paused for a while and has run again since
WitC26 ==
    /\ ExamSelected
    /\ session_state.start_time # NoTime
    /\ session_state.total_time >= 1
    /\ now - session_state.start_time >= 1
    /\ ran = 2
    /\ now = FirstInstant + 3
    /\ session_state.selected_exam = exam_keys(config)[1]

Answered(q) == Key(session_state.selected_exam, q) \in DOMAIN session_state.user_answers

AnswerTo(q) == session_state.user_answers[Key(session_state.selected_exam, q)]

\* C27: a step that changes the log file appends one entry to the entries
\* it had: one result per question of the section in question order, with
\* is_correct None for a question without an answer and otherwise true
\* exactly when the answer is the correct one; history_tab then loads the
\* new log; and while there is no log file, the log loaded is empty.
InvC27 ==
    /\ [](((~log_file.exists) /\ Showing) => log_data = <<>>)
    /\ [][log_file' # log_file =>
            LET old == IF log_file.exists THEN log_file.entries ELSE <<>>
                new == log_file'.entries
                e   == new[Len(new)]
                correct == answers_of(config, session_state.selected_exam, selected_section)
            IN  /\ log_file'.exists
                /\ Len(new) = Len(old) + 1
                /\ SubSeq(new, 1, Len(old)) = old
                /\ log_data' = new
                /\ e.exam_id = session_state.selected_exam
                /\ Len(e.results) = Len(Questions)
                /\ \A i \in 1..Len(Questions) :
                       /\ e.results[i].question = Questions[i]
                       /\ e.results[i].correct_answer = correct[i]
                       /\ ~Answered(Questions[i]) => e.results[i].is_correct = "None"
                       /\ Answered(Questions[i]) =>
                              /\ e.results[i].user_answer = AnswerTo(Questions[i])
                              /\ e.results[i].is_correct # "None"
                              /\ e.results[i].is_correct = "True"
                                     <=> AnswerTo(Questions[i]) = correct[i]]_vars

\* a session was saved after an earlier one, with a question unanswered and
\* a question answered wrongly
WitC27 ==
    /\ log_file.exists
    /\ Len(log_file.entries) = 2
    /\ log_file.entries[1] = EarlierEntry
    /\ log_file.entries[2].results[1].is_correct = "False"
    /\ log_file.entries[2].results[2].is_correct = "None"
    /\ log_data = log_file.entries

====
